---- MODULE Spec2Model ----
(***************************************************************************)
(* ASCII video converter (src/App.tsx): the React component App, its       *)
(* conversion pipeline convertToAscii, the requestAnimationFrame render    *)
(* loop animate, the playback effect and the event handlers.               *)
(*                                                                         *)
(* React is modelled by what its hooks contract says: a state setter       *)
(* queues a value, a later render commits it (closures and DOM attributes  *)
(* of the committed render are what events see), and a passive effect      *)
(* whose dependencies changed runs some time after the commit (cleanup of  *)
(* the previous run first).  Browser callbacks (animation frames, media    *)
(* events) interleave freely with these steps.                             *)
(***************************************************************************)
EXTENDS Integers, Sequences, FiniteSets, TLC

VARIABLES
    videoSrc,          \* useState videoSrc: 0 (null) or the selected file
    asciiArt,          \* useState asciiArt: Frame Text, a string
    isPlaying,         \* useState isPlaying (latest queued value)
    resolution,        \* useState resolution (latest queued value)
    dimensions,        \* useState dimensions
    rendered,          \* values captured by the committed render's closures / DOM
    effectPending,     \* the playback effect is scheduled but has not run yet
    animationFrameId,  \* useRef animationFrameId; 0 is undefined
    rafQueue,          \* callbacks registered with requestAnimationFrame, not yet run
    video,             \* the <video> element
    canvas,            \* the scratch <canvas> element
    ev,                \* what the step just taken did (operation, convert call outcome)
    pauseCause,        \* which handler last set isPlaying
    rgb,               \* quantizer check: the triple under test
    rampIndex          \* quantizer check: indices computed for rgb and its brightening

vars == <<videoSrc, asciiArt, isPlaying, resolution, dimensions, rendered, effectPending,
          animationFrameId, rafQueue, video, canvas, ev, pauseCause, rgb, rampIndex>>

progVars == <<videoSrc, asciiArt, isPlaying, resolution, dimensions, rendered, effectPending,
              animationFrameId, rafQueue, video, canvas, ev, pauseCause>>

(***************************************************************************)
(* IEEE-754 binary64 arithmetic on non-negative finite numbers, as the     *)
(* JavaScript Number operations * + / and Math.floor perform it.  A number *)
(* is m * 2^e with m a natural of at most MantissaBits bits, kept as a     *)
(* little-endian sequence of LimbBits-bit limbs.  Every operation computes *)
(* the exact result and rounds it to nearest, ties to even.  Divisors are  *)
(* integers below Base (100, 255, 10, a native video width).               *)
(***************************************************************************)
LimbBits == 15

Base == 32768

RECURSIVE Pow2(_)
Pow2(k) == IF k = 0 THEN 1 ELSE 2 * Pow2(k - 1)

RECURSIVE BitLen(_)
BitLen(n) == IF n = 0 THEN 0 ELSE 1 + BitLen(n \div 2)

RECURSIVE BigTrim(_)
BigTrim(a) == IF a = <<>> THEN <<>>
              ELSE IF a[Len(a)] = 0 THEN BigTrim(SubSeq(a, 1, Len(a) - 1)) ELSE a

RECURSIVE BigFromInt(_)
BigFromInt(n) == IF n = 0 THEN <<>> ELSE <<n % Base>> \o BigFromInt(n \div Base)

RECURSIVE BigToInt(_)
BigToInt(a) == IF a = <<>> THEN 0 ELSE Head(a) + Base * BigToInt(Tail(a))

BigBitLen(a) == IF a = <<>> THEN 0 ELSE LimbBits * (Len(a) - 1) + BitLen(a[Len(a)])

BigBit(a, i) == IF i \div LimbBits + 1 > Len(a) THEN 0
                ELSE (a[i \div LimbBits + 1] \div Pow2(i % LimbBits)) % 2

RECURSIVE BigAddC(_, _, _)
BigAddC(a, b, c) ==
    IF a = <<>> /\ b = <<>> THEN (IF c = 0 THEN <<>> ELSE <<c>>)
    ELSE LET s == (IF a = <<>> THEN 0 ELSE Head(a)) + (IF b = <<>> THEN 0 ELSE Head(b)) + c
         IN  <<s % Base>> \o BigAddC(IF a = <<>> THEN <<>> ELSE Tail(a),
                                     IF b = <<>> THEN <<>> ELSE Tail(b), s \div Base)

BigAdd(a, b) == BigAddC(a, b, 0)

RECURSIVE BigMulSmallC(_, _, _)
BigMulSmallC(a, k, c) ==
    IF a = <<>> THEN (IF c = 0 THEN <<>> ELSE <<c>>)
    ELSE LET p == Head(a) * k + c
         IN  <<p % Base>> \o BigMulSmallC(Tail(a), k, p \div Base)

BigMulSmall(a, k) == IF k = 0 THEN <<>> ELSE BigMulSmallC(a, k, 0)

RECURSIVE BigMul(_, _)
BigMul(a, b) ==
    IF a = <<>> \/ b = <<>> THEN <<>>
    ELSE LET rest == BigMul(a, Tail(b))
         IN  BigAdd(BigMulSmall(a, Head(b)), IF rest = <<>> THEN <<>> ELSE <<0>> \o rest)

RECURSIVE BigDivSmallR(_, _, _)
BigDivSmallR(a, k, i) ==
    IF i > Len(a) THEN [q |-> <<>>, r |-> 0]
    ELSE LET hi == BigDivSmallR(a, k, i + 1)
             n == hi.r * Base + a[i]
         IN  [q |-> <<n \div k>> \o hi.q, r |-> n % k]

BigDivSmall(a, k) == LET d == BigDivSmallR(a, k, 1) IN [q |-> BigTrim(d.q), r |-> d.r]

BigShl(a, s) == IF a = <<>> THEN <<>>
                ELSE [i \in 1..(s \div LimbBits) |-> 0] \o BigMulSmall(a, Pow2(s % LimbBits))

BigShr(a, s) == IF s \div LimbBits >= Len(a) THEN <<>>
                ELSE BigDivSmall(SubSeq(a, s \div LimbBits + 1, Len(a)), Pow2(s % LimbBits)).q

MantissaBits == 53

RoundToDouble(n, e, sticky) ==
    IF BigBitLen(n) <= MantissaBits THEN [m |-> n, e |-> IF n = <<>> THEN 0 ELSE e]
    ELSE LET d == BigBitLen(n) - MantissaBits
             kept == BigShr(n, d)
             st == sticky \/ \E i \in 0..(d - 2) : BigBit(n, i) = 1
             up == BigBit(n, d - 1) = 1 /\ (st \/ BigBit(kept, 0) = 1)
             m1 == IF up THEN BigAdd(kept, <<1>>) ELSE kept
         IN  IF BigBitLen(m1) > MantissaBits
             THEN [m |-> BigShr(m1, 1), e |-> e + d + 1]
             ELSE [m |-> m1, e |-> e + d]

FromInt(n) == [m |-> BigFromInt(n), e |-> 0]

FMul(x, y) == RoundToDouble(BigMul(x.m, y.m), x.e + y.e, FALSE)

FAdd(x, y) ==
    IF x.m = <<>> THEN y ELSE IF y.m = <<>> THEN x
    ELSE LET emin == IF x.e < y.e THEN x.e ELSE y.e
         IN  RoundToDouble(BigAdd(BigShl(x.m, x.e - emin), BigShl(y.m, y.e - emin)), emin, FALSE)

FDiv(x, y) ==
    LET s == MantissaBits + 2 + BigBitLen(y.m)
        d == BigDivSmall(BigShl(x.m, s), BigToInt(y.m))
    IN  RoundToDouble(d.q, x.e - y.e - s, d.r # 0)

Floor(x) == IF x.e >= 0 THEN BigToInt(BigShl(x.m, x.e)) ELSE BigToInt(BigShr(x.m, 0 - x.e))

Dec(n, d) == FDiv(FromInt(n), FromInt(d))

(***************************************************************************)
(* Program constants and the pure parts of convertToAscii.                 *)
(***************************************************************************)
\* line 5, one entry per character.  The first glyph of the source, the grave accent,
\* cannot be written in a TLA+ string; "." (which the ramp does not contain) stands for it.
ASCII_RAMP ==
    << ".", "^", "\"", ",", ":", ";", "I", "l", "!", "i", "~", "+", "_", "-", "?", "]",
       "[", "}", "{", "1", ")", "(", "|", "\\", "/", "t", "f", "j", "r", "x", "n", "u",
       "v", "c", "z", "X", "Y", "U", "J", "C", "L", "Q", "0", "O", "Z", "m", "w", "q",
       "p", "d", "b", "k", "h", "a", "o", "*", "#", "M", "W", "&", "8", "%", "B", "@",
       "$" >>

DEFAULT_RESOLUTION == 150

FONT_SIZE_ADJUST == Dec(5, 10)

RangeMin == 50

RangeMax == 300

NaN == -1

\* the quantizer with the red weight mistyped as 0.31
QuantizerHeavyRed(r, g, b) ==
    LET gray == FAdd(FAdd(FMul(Dec(31, 100), FromInt(r)), FMul(Dec(72, 100), FromInt(g))),
                     FMul(Dec(7, 100), FromInt(b)))
    IN  Floor(FMul(FDiv(gray, FromInt(255)), FromInt(Len(ASCII_RAMP) - 1)))

\* the quantizer reading the ramp from its bright end
QuantizerInverted(r, g, b) ==
    LET gray == FAdd(FAdd(FMul(Dec(21, 100), FromInt(r)), FMul(Dec(72, 100), FromInt(g))),
                     FMul(Dec(7, 100), FromInt(b)))
    IN  (Len(ASCII_RAMP) - 1) - Floor(FMul(FDiv(gray, FromInt(255)), FromInt(Len(ASCII_RAMP) - 1)))

\* the quantizer with the digits of the green weight swapped
QuantizerGreenTypo(r, g, b) ==
    LET gray == FAdd(FAdd(FMul(Dec(21, 100), FromInt(r)), FMul(Dec(27, 100), FromInt(g))),
                     FMul(Dec(7, 100), FromInt(b)))
    IN  Floor(FMul(FDiv(gray, FromInt(255)), FromInt(Len(ASCII_RAMP) - 1)))

\* lines 80-81: gray = 0.21*r + 0.72*g + 0.07*b; Math.floor((gray / 255) * (ASCII_RAMP.length - 1))
Quantizer(r, g, b) ==
    LET gray == FAdd(FAdd(FMul(Dec(21, 100), FromInt(r)), FMul(Dec(72, 100), FromInt(g))),
                     FMul(Dec(7, 100), FromInt(b)))
    IN  Floor(FMul(FDiv(gray, FromInt(255)), FromInt(Len(ASCII_RAMP) - 1)))

\* line 82: ASCII_RAMP[rampIndex]; an index outside the string reads undefined
RampAt(i) == IF i \in 0..(Len(ASCII_RAMP) - 1) THEN ASCII_RAMP[i + 1] ELSE "undefined"

\* the height without the glyph cell adjustment
CanvasHeightNoAdjust(videoHeight, videoWidth, canvasWidth) ==
    IF videoWidth = 0 THEN NaN
    ELSE Floor(FMul(FDiv(FromInt(videoHeight), FromInt(videoWidth)), FromInt(canvasWidth)))

\* lines 60-62: aspectRatio = videoHeight / videoWidth (0 / 0 is NaN before the
\* metadata is loaded; both dimensions are zero then); Math.floor(aspectRatio * canvasWidth * 0.5)
CanvasHeight(videoHeight, videoWidth, canvasWidth) ==
    IF videoWidth = 0 THEN NaN
    ELSE Floor(FMul(FMul(FDiv(FromInt(videoHeight), FromInt(videoWidth)), FromInt(canvasWidth)),
                    FONT_SIZE_ADJUST))

\* line 65: canvas.height is an unsigned long attribute; NaN converts to 0
ToUnsignedLong(h) == IF h = NaN THEN 0 ELSE h

\* a slider without the max attribute
RangeValueNoMax(v) == IF v < RangeMin THEN RangeMin ELSE v

\* lines 192-198: the value of <input type="range" min="50" max="300"> is the
\* requested number brought into [min, max]; onChange hands it to setResolution
RangeValue(v) == IF v < RangeMin THEN RangeMin ELSE IF v > RangeMax THEN RangeMax ELSE v

(***************************************************************************)
(* The environment: the files the user can select, the frames the decoder  *)
(* presents and the pixels drawImage / getImageData hand to the loops.     *)
(***************************************************************************)
Files == {1}

FrameFiles == {1, 2}

Duration == 1

MaxDelta == 3

ChannelValues == {0, 5, 42, 83, 128, 159, 186, 254, 255}

NativeWidth(file) == 300

NativeHeight(file) == IF file = 1 THEN 4 ELSE 10

ResolutionRequests == {40, 150, 310}

Palette == << <<0, 0, 0>>, <<255, 255, 255>>, <<128, 128, 128>>, <<0, 159, 186>>,
              <<5, 83, 42>>, <<254, 254, 254>>, <<200, 30, 90>> >>

\* pixel number p (row-major) of the frame of file shown at time, as resampled by drawImage
Pixel(file, time, p) ==
    IF time = 0 THEN <<128, 128, 128>> ELSE Palette[((p + time + file) % Len(Palette)) + 1]

\* line 70: getImageData(...).data, a flat RGBA byte array
ImageDataAt(file, time, offset) ==
    IF offset % 4 = 3 THEN 255 ELSE Pixel(file, time, offset \div 4)[(offset % 4) + 1]

\* the quantizer's value on every colour a frame can contain, computed once
QuantizerMemo ==
    {[rgb |-> Palette[i], index |-> Quantizer(Palette[i][1], Palette[i][2], Palette[i][3])]
        : i \in 1..Len(Palette)}

\* lines 80-81: the ramp index of a pixel, taken from the entries computed before
\* when there is one
rampIndexOf(known, r, g, b) ==
    IF known # {} THEN (CHOOSE m \in known : TRUE).index ELSE Quantizer(r, g, b)

\* lines 80-82: the glyph of a pixel
Glyph(r, g, b) == RampAt(rampIndexOf({m \in QuantizerMemo : m.rgb = <<r, g, b>>}, r, g, b))

\* the glyphs of a row read with the column counted from one
RECURSIVE asciiRowFromOne(_, _, _, _, _, _)
asciiRowFromOne(file, time, canvasWidth, y, lo, hi) ==
    IF lo > hi THEN ""
    ELSE IF lo = hi
    THEN LET offset == (y * canvasWidth + lo + 1) * 4
             r == ImageDataAt(file, time, offset)
             g == ImageDataAt(file, time, offset + 1)
             b == ImageDataAt(file, time, offset + 2)
         IN  Glyph(r, g, b)
    ELSE asciiRowFromOne(file, time, canvasWidth, y, lo, (lo + hi) \div 2)
             \o asciiRowFromOne(file, time, canvasWidth, y, (lo + hi) \div 2 + 1, hi)

\* lines 74-83: the glyphs the inner loop appends for the columns lo..hi of row y
\* (the columns are split in halves to keep the evaluation shallow)
RECURSIVE asciiRow(_, _, _, _, _, _)
asciiRow(file, time, canvasWidth, y, lo, hi) ==
    IF lo > hi THEN ""
    ELSE IF lo = hi
    THEN LET offset == (y * canvasWidth + lo) * 4
             r == ImageDataAt(file, time, offset)
             g == ImageDataAt(file, time, offset + 1)
             b == ImageDataAt(file, time, offset + 2)
         IN  Glyph(r, g, b)
    ELSE asciiRow(file, time, canvasWidth, y, lo, (lo + hi) \div 2)
             \o asciiRow(file, time, canvasWidth, y, (lo + hi) \div 2 + 1, hi)

\* lines 71-85: the outer loop from row y on; line 84 ends every row with a newline
RECURSIVE asciiString(_, _, _, _, _)
asciiString(file, time, canvasWidth, canvasHeight, y) ==
    IF y >= canvasHeight THEN ""
    ELSE asciiRow(file, time, canvasWidth, y, 0, canvasWidth - 1) \o "\n"
             \o asciiString(file, time, canvasWidth, canvasHeight, y + 1)

\* the Frame Text of every frame at every resolution the playback model reaches,
\* computed once
FrameTextMemo ==
    {[key |-> k,
      text |-> asciiString(k[1], k[2], k[3],
                           CanvasHeight(NativeHeight(k[1]), NativeWidth(k[1]), k[3]), 0)]
        : k \in Files \X (0..Duration)
                  \X ({DEFAULT_RESOLUTION} \cup {RangeValue(v) : v \in ResolutionRequests})}

\* lines 70-85: the string of a frame, taken from the entries computed before when
\* there is one
frameTextOf(known, v, canvasWidth, canvasHeight) ==
    IF known # {} THEN (CHOOSE m \in known : TRUE).text
    ELSE asciiString(v.src, v.shownTime, canvasWidth, canvasHeight, 0)

\* lines 70-85: the string the loops build from the pixels of the frame v shows
FrameText(v, canvasWidth, canvasHeight) ==
    frameTextOf({m \in FrameTextMemo : m.key = <<v.src, v.shownTime, canvasWidth>>},
                v, canvasWidth, canvasHeight)

\* lines 60-62 for the files of the playback model at the widths its slider reaches,
\* computed once
CanvasHeightMemo ==
    {[key |-> <<NativeHeight(f), NativeWidth(f), w>>,
      height |-> CanvasHeight(NativeHeight(f), NativeWidth(f), w)]
        : f \in Files, w \in {DEFAULT_RESOLUTION} \cup {RangeValue(r) : r \in ResolutionRequests}}

\* lines 60-62: the canvas height, taken from the entries computed before when there
\* is one
canvasHeightOf(known, videoHeight, videoWidth, canvasWidth) ==
    IF known # {} THEN (CHOOSE m \in known : TRUE).height
    ELSE CanvasHeight(videoHeight, videoWidth, canvasWidth)

\* the try block with the loops appending to the Frame Text of the call before
getImageDataAppending(canvasWidth, canvasHeight, v) ==
    IF canvasHeight = NaN \/ canvasHeight = 0
    THEN [canvas |-> [width |-> canvasWidth, height |-> ToUnsignedLong(canvasHeight)],
          asciiArt |-> asciiArt, outcome |-> "throw"]
    ELSE [canvas |-> [width |-> canvasWidth, height |-> ToUnsignedLong(canvasHeight)],
          asciiArt |-> asciiArt \o FrameText(v, canvasWidth, canvasHeight), outcome |-> "ok"]

\* the try block with a catch that blanks the Frame Text
getImageDataBlanking(canvasWidth, canvasHeight, v) ==
    IF canvasHeight = NaN \/ canvasHeight = 0
    THEN [canvas |-> [width |-> canvasWidth, height |-> ToUnsignedLong(canvasHeight)],
          asciiArt |-> "", outcome |-> "throw"]
    ELSE [canvas |-> [width |-> canvasWidth, height |-> ToUnsignedLong(canvasHeight)],
          asciiArt |-> FrameText(v, canvasWidth, canvasHeight), outcome |-> "ok"]

\* lines 64-89: the canvas takes the computed size (line 65 stores NaN as 0), then the
\* try block: getImageData throws when the height is NaN or zero and the catch logs
\* and returns; otherwise the loops run and setAsciiArt stores their string
getImageData(canvasWidth, canvasHeight, v) ==
    IF canvasHeight = NaN \/ canvasHeight = 0
    THEN [canvas |-> [width |-> canvasWidth, height |-> ToUnsignedLong(canvasHeight)],
          asciiArt |-> asciiArt, outcome |-> "throw"]
    ELSE [canvas |-> [width |-> canvasWidth, height |-> ToUnsignedLong(canvasHeight)],
          asciiArt |-> FrameText(v, canvasWidth, canvasHeight), outcome |-> "ok"]

\* lines 51-90: convertToAscii as created by a render with the given resolution,
\* run on the video element v; ctx tells whether getContext('2d') returned a context
convertToAscii(res, ctx, v) ==
    IF ~ctx THEN [canvas |-> canvas, asciiArt |-> asciiArt, outcome |-> "noctx"]
    ELSE getImageData(res,
                      canvasHeightOf({m \in CanvasHeightMemo :
                                         m.key = <<v.videoHeight, v.videoWidth, res>>},
                                     v.videoHeight, v.videoWidth, res),
                      v)

\* the record of a step that called convertToAscii: the calling operation, the
\* resolution of the closure, the outcome of the call and the frame it sampled
Ev(op, res, outcome, v) ==
    [op |-> op, res |-> res, outcome |-> outcome, file |-> v.src, time |-> v.shownTime]

\* the record of a step that made no convertToAscii call; req is the value asked of
\* the resolution slider, 0 when the step is not a slider change
NoCall(req) == [op |-> "none", res |-> req, outcome |-> "none", file |-> 0, time |-> 0]

\* cancelAnimationFrame(id) on the queue of registered callbacks
cancelAnimationFrame(queue, id) == {cb \in queue : cb.id # id}

\* a cleanup that cancels nothing
CancelNever(queue, id) == queue

\* lines 103-105 and 108-110: if (animationFrameId.current) cancelAnimationFrame(...)
CancelIfSet(queue, id) == IF id # 0 THEN cancelAnimationFrame(queue, id) ELSE queue

\* the handle requestAnimationFrame returns: one no registered callback has.  (The
\* browser counts upwards; only equality with handles still registered matters, and
\* the ref is overwritten by every request, so the least free handle is taken.)
NewFrameId(queue) ==
    CHOOSE n \in 1..(Cardinality(queue) + 1) : \A cb \in queue : cb.id # n

\* lines 94 and 100: requestAnimationFrame(animate), animate closed over res
requestAnimationFrame(queue, res) == queue \cup {[id |-> NewFrameId(queue), resolution |-> res]}

\* line 172: a new src attribute makes the element load the file from scratch
LoadSource(file) ==
    [src |-> file, loaded |-> FALSE, videoWidth |-> 0, videoHeight |-> 0,
     paused |-> TRUE, currentTime |-> 0, shownTime |-> 0]

Init ==
    /\ videoSrc = 0
    /\ asciiArt = ""
    /\ isPlaying = FALSE
    /\ resolution = DEFAULT_RESOLUTION
    /\ dimensions = [width |-> 0, height |-> 0]
    /\ rendered = [videoSrc |-> 0, isPlaying |-> FALSE, resolution |-> DEFAULT_RESOLUTION]
    /\ effectPending = FALSE
    /\ animationFrameId = 0
    /\ rafQueue = {}
    /\ video = LoadSource(0)
    /\ canvas = [width |-> 300, height |-> 150]
    /\ ev = NoCall(0)
    /\ pauseCause = "none"
    /\ rgb = <<0, 0, 0>>
    /\ rampIndex = [pc |-> "input", d |-> 0, base |-> 0, bright |-> 0]

\* lines 45-49; the uploader is rendered only while the committed videoSrc is null (line 148)
handleFileChange(file) ==
    /\ rendered.videoSrc = 0
    /\ videoSrc' = file
    /\ isPlaying' = FALSE
    /\ pauseCause' = "file"
    /\ ev' = NoCall(0)
    /\ UNCHANGED <<asciiArt, resolution, dimensions, rendered, effectPending, animationFrameId,
                   rafQueue, video, canvas, rgb, rampIndex>>

\* a commit whose playback effect depends on isPlaying alone
RenderEffectOnPlayingOnly ==
    /\ ~effectPending
    /\ <<videoSrc, isPlaying, resolution>>
           # <<rendered.videoSrc, rendered.isPlaying, rendered.resolution>>
    /\ rendered' = [videoSrc |-> videoSrc, isPlaying |-> isPlaying, resolution |-> resolution]
    /\ effectPending' = (isPlaying # rendered.isPlaying)
    /\ video' = IF videoSrc # rendered.videoSrc THEN LoadSource(videoSrc) ELSE video
    /\ ev' = NoCall(0)
    /\ UNCHANGED <<videoSrc, asciiArt, isPlaying, resolution, dimensions, animationFrameId,
                   rafQueue, canvas, pauseCause, rgb, rampIndex>>

\* React commits the queued state: new closures, new DOM attributes; the playback
\* effect is scheduled when one of its dependencies [isPlaying, animate] changed
\* (animate changes exactly when resolution does, lines 90 and 95)
Render ==
    /\ ~effectPending
    /\ <<videoSrc, isPlaying, resolution>>
           # <<rendered.videoSrc, rendered.isPlaying, rendered.resolution>>
    /\ rendered' = [videoSrc |-> videoSrc, isPlaying |-> isPlaying, resolution |-> resolution]
    /\ effectPending' = (isPlaying # rendered.isPlaying \/ resolution # rendered.resolution)
    /\ video' = IF videoSrc # rendered.videoSrc THEN LoadSource(videoSrc) ELSE video
    /\ ev' = NoCall(0)
    /\ UNCHANGED <<videoSrc, asciiArt, isPlaying, resolution, dimensions, animationFrameId,
                   rafQueue, canvas, pauseCause, rgb, rampIndex>>

\* lines 97-112: cleanup of the previous run, then the effect of the committed render
RunEffect ==
    /\ effectPending
    /\ effectPending' = FALSE
    /\ LET cleaned == CancelIfSet(rafQueue, animationFrameId)
       IN  IF rendered.isPlaying
           THEN /\ video' = [video EXCEPT !.paused = FALSE]
                /\ rafQueue' = requestAnimationFrame(cleaned, rendered.resolution)
                /\ animationFrameId' = NewFrameId(cleaned)
           ELSE /\ video' = [video EXCEPT !.paused = TRUE]
                /\ rafQueue' = CancelIfSet(cleaned, animationFrameId)
                /\ animationFrameId' = animationFrameId
    /\ ev' = NoCall(0)
    /\ UNCHANGED <<videoSrc, asciiArt, isPlaying, resolution, dimensions, rendered, canvas,
                   pauseCause, rgb, rampIndex>>

\* a tick that converts but does not request the next frame
animateOnce(cb, ctx) ==
    /\ cb \in rafQueue
    /\ \E c \in {convertToAscii(cb.resolution, ctx, video)} :
          /\ asciiArt' = c.asciiArt
          /\ canvas' = c.canvas
          /\ ev' = Ev("animate", cb.resolution, c.outcome, video)
    /\ rafQueue' = rafQueue \ {cb}
    /\ UNCHANGED <<videoSrc, isPlaying, resolution, dimensions, rendered, effectPending,
                   animationFrameId, video, pauseCause, rgb, rampIndex>>

\* lines 92-95: the browser runs a registered callback
animate(cb, ctx) ==
    /\ cb \in rafQueue
    /\ \E c \in {convertToAscii(cb.resolution, ctx, video)} :
          /\ asciiArt' = c.asciiArt
          /\ canvas' = c.canvas
          /\ ev' = Ev("animate", cb.resolution, c.outcome, video)
    /\ rafQueue' = requestAnimationFrame(rafQueue \ {cb}, cb.resolution)
    /\ animationFrameId' = NewFrameId(rafQueue \ {cb})
    /\ UNCHANGED <<videoSrc, isPlaying, resolution, dimensions, rendered, effectPending,
                   video, pauseCause, rgb, rampIndex>>

\* lines 114-118; the button is rendered only when the committed videoSrc is set (line 181)
togglePlayPause ==
    /\ rendered.videoSrc # 0
    /\ video.src # 0
    /\ isPlaying' = ~rendered.isPlaying
    /\ pauseCause' = IF rendered.isPlaying THEN "toggle" ELSE "none"
    /\ ev' = NoCall(0)
    /\ UNCHANGED <<videoSrc, asciiArt, resolution, dimensions, rendered, effectPending,
                   animationFrameId, rafQueue, video, canvas, rgb, rampIndex>>

\* a slider change that also converts the current frame at the new width
setResolutionConverting(v) ==
    /\ rendered.videoSrc # 0
    /\ RangeValue(v) # rendered.resolution
    /\ resolution' = RangeValue(v)
    /\ ev' = NoCall(v)
    /\ \E c \in {convertToAscii(RangeValue(v), TRUE, video)} :
          asciiArt' = c.asciiArt /\ canvas' = c.canvas
    /\ UNCHANGED <<videoSrc, isPlaying, dimensions, rendered, effectPending,
                   animationFrameId, rafQueue, video, pauseCause, rgb, rampIndex>>

\* lines 192-200: the user asks the slider for v; the slider is rendered only when the
\* committed videoSrc is set and shows the committed resolution
setResolution(v) ==
    /\ rendered.videoSrc # 0
    /\ RangeValue(v) # rendered.resolution
    /\ resolution' = RangeValue(v)
    /\ ev' = NoCall(v)
    /\ UNCHANGED <<videoSrc, asciiArt, isPlaying, dimensions, rendered, effectPending,
                   animationFrameId, rafQueue, video, canvas, pauseCause, rgb, rampIndex>>

\* lines 120-125, on the element's loadedmetadata event
handleVideoLoaded(ctx) ==
    /\ video.src # 0
    /\ ~video.loaded
    /\ video' = [video EXCEPT !.loaded = TRUE, !.videoWidth = NativeWidth(video.src),
                              !.videoHeight = NativeHeight(video.src)]
    /\ dimensions' = [width |-> video'.videoWidth, height |-> video'.videoHeight]
    /\ \E c \in {convertToAscii(rendered.resolution, ctx, video')} :
          /\ asciiArt' = c.asciiArt
          /\ canvas' = c.canvas
          /\ ev' = Ev("handleVideoLoaded", rendered.resolution, c.outcome, video')
    /\ UNCHANGED <<videoSrc, isPlaying, resolution, rendered, effectPending, animationFrameId,
                   rafQueue, pauseCause, rgb, rampIndex>>

\* the decoder presents the next frame of a playing video
VideoAdvance ==
    /\ video.loaded
    /\ ~video.paused
    /\ video.shownTime = video.currentTime
    /\ video.currentTime < Duration
    /\ video' = [video EXCEPT !.currentTime = @ + 1, !.shownTime = @ + 1]
    /\ ev' = NoCall(0)
    /\ UNCHANGED <<videoSrc, asciiArt, isPlaying, resolution, dimensions, rendered,
                   effectPending, animationFrameId, rafQueue, canvas, pauseCause, rgb, rampIndex>>

\* lines 127-133, on the element's ended event (the element pauses itself at the end).
\* currentTime = 0 starts a seek that completes in parallel: the frame the element
\* presents to the drawImage of line 67 is the last frame or already the first one.
handleVideoEnded(ctx, shown) ==
    /\ video.loaded
    /\ ~video.paused
    /\ video.shownTime = video.currentTime
    /\ video.currentTime = Duration
    /\ shown \in {video.shownTime, 0}
    /\ isPlaying' = FALSE
    /\ pauseCause' = "ended"
    /\ video' = [video EXCEPT !.paused = TRUE, !.currentTime = 0, !.shownTime = shown]
    /\ \E c \in {convertToAscii(rendered.resolution, ctx, video')} :
          /\ asciiArt' = c.asciiArt
          /\ canvas' = c.canvas
          /\ ev' = Ev("handleVideoEnded", rendered.resolution, c.outcome, video')
    /\ UNCHANGED <<videoSrc, resolution, dimensions, rendered, effectPending, animationFrameId,
                   rafQueue, rgb, rampIndex>>

\* the seek started by line 130 completes: the element presents the frame at currentTime
Seeked ==
    /\ video.shownTime # video.currentTime
    /\ video' = [video EXCEPT !.shownTime = video.currentTime]
    /\ ev' = NoCall(0)
    /\ UNCHANGED <<videoSrc, asciiArt, isPlaying, resolution, dimensions, rendered,
                   effectPending, animationFrameId, rafQueue, canvas, pauseCause, rgb, rampIndex>>

Next ==
    \/ \E file \in Files : handleFileChange(file)
    \/ Render
    \/ RunEffect
    \/ \E cb \in rafQueue, ctx \in BOOLEAN : animate(cb, ctx)
    \/ togglePlayPause
    \/ \E v \in ResolutionRequests : setResolution(v)
    \/ \E ctx \in BOOLEAN : handleVideoLoaded(ctx)
    \/ VideoAdvance
    \/ \E ctx \in BOOLEAN, shown \in 0..Duration : handleVideoEnded(ctx, shown)
    \/ Seeked

Spec == Init /\ [][Next]_vars

\* The playback model under the scheduling the platform provides: React commits queued
\* state and runs pending effects, and the browser runs a registered animation frame
\* callback; the user and the media events are under no obligation.
SpecLive ==
    /\ Init /\ [][Next]_vars
    /\ WF_vars(Render)
    /\ WF_vars(RunEffect)
    /\ WF_vars(\E cb \in rafQueue, ctx \in BOOLEAN : animate(cb, ctx))

(***************************************************************************)
(* The quantizer on its own: a triple is drawn, quantized, then brightened  *)
(* equally on all three channels and quantized again.                      *)
(***************************************************************************)
InitQuantizer ==
    /\ videoSrc = 0
    /\ asciiArt = ""
    /\ isPlaying = FALSE
    /\ resolution = DEFAULT_RESOLUTION
    /\ dimensions = [width |-> 0, height |-> 0]
    /\ rendered = [videoSrc |-> 0, isPlaying |-> FALSE, resolution |-> DEFAULT_RESOLUTION]
    /\ effectPending = FALSE
    /\ animationFrameId = 0
    /\ rafQueue = {}
    /\ video = LoadSource(0)
    /\ canvas = [width |-> 300, height |-> 150]
    /\ ev = NoCall(0)
    /\ pauseCause = "none"
    /\ rgb \in ChannelValues \X ChannelValues \X ChannelValues
    /\ rampIndex = [pc |-> "input", d |-> 0, base |-> 0, bright |-> 0]

\* lines 76-81 on one pixel
Quantize ==
    /\ rampIndex.pc = "input"
    /\ rampIndex' = [rampIndex EXCEPT !.pc = "quantized",
                                      !.base = Quantizer(rgb[1], rgb[2], rgb[3])]
    /\ UNCHANGED <<progVars, rgb>>

\* lines 76-81 on the same pixel with d added to every channel
Brighten(d) ==
    /\ rampIndex.pc = "quantized"
    /\ \A i \in 1..3 : rgb[i] + d <= 255
    /\ rampIndex' = [rampIndex EXCEPT !.pc = "brightened", !.d = d,
                                      !.bright = Quantizer(rgb[1] + d, rgb[2] + d, rgb[3] + d)]
    /\ UNCHANGED <<progVars, rgb>>

NextQuantizer ==
    \/ Quantize
    \/ \E d \in 0..MaxDelta : Brighten(d)

SpecQuantizer == InitQuantizer /\ [][NextQuantizer]_vars

(***************************************************************************)
(* convertToAscii on its own: a loaded file shows one of its frames, the   *)
(* slider stands at any value of its range, and convertToAscii runs as a   *)
(* load event, an ended event or a tick would run it.                      *)
(***************************************************************************)
InitFrame ==
    /\ \E file \in FrameFiles, time \in 0..Duration :
          /\ videoSrc = file
          /\ video = [src |-> file, loaded |-> TRUE, videoWidth |-> NativeWidth(file),
                      videoHeight |-> NativeHeight(file), paused |-> TRUE,
                      currentTime |-> time, shownTime |-> time]
          /\ dimensions = [width |-> NativeWidth(file), height |-> NativeHeight(file)]
          /\ \E res \in RangeMin..RangeMax :
                /\ resolution = res
                /\ rendered = [videoSrc |-> file, isPlaying |-> FALSE, resolution |-> res]
    /\ asciiArt \in {"", "@@\n"}
    /\ isPlaying = FALSE
    /\ effectPending = FALSE
    /\ animationFrameId = 0
    /\ rafQueue = {}
    /\ canvas = [width |-> 300, height |-> 150]
    /\ ev = NoCall(0)
    /\ pauseCause = "none"
    /\ rgb = <<0, 0, 0>>
    /\ rampIndex = [pc |-> "input", d |-> 0, base |-> 0, bright |-> 0]

\* a convertToAscii that rewinds the video it samples
ConvertFrameRewinding(ctx) ==
    /\ \E c \in {convertToAscii(rendered.resolution, ctx, video)} :
          /\ asciiArt' = c.asciiArt
          /\ canvas' = c.canvas
          /\ ev' = Ev("convertToAscii", rendered.resolution, c.outcome, video)
    /\ video' = [video EXCEPT !.currentTime = 0]
    /\ UNCHANGED <<videoSrc, isPlaying, resolution, dimensions, rendered, effectPending,
                   animationFrameId, rafQueue, pauseCause, rgb, rampIndex>>

\* lines 51-90, called with the closure of the committed render
ConvertFrame(ctx) ==
    /\ \E c \in {convertToAscii(rendered.resolution, ctx, video)} :
          /\ asciiArt' = c.asciiArt
          /\ canvas' = c.canvas
          /\ ev' = Ev("convertToAscii", rendered.resolution, c.outcome, video)
    /\ UNCHANGED <<videoSrc, isPlaying, resolution, dimensions, rendered, effectPending,
                   animationFrameId, rafQueue, video, pauseCause, rgb, rampIndex>>

NextFrame == \E ctx \in BOOLEAN : ConvertFrame(ctx)

SpecFrame == InitFrame /\ [][NextFrame]_vars

(***************************************************************************)
(* Properties.                                                             *)
(***************************************************************************)

\* C1: after an explicit pause (togglePlayPause while isPlaying is true) and until
\* play is resumed, no step of the render loop (animate) calls convertToAscii.
C1_NoTickConvertAfterPause ==
    ~(pauseCause = "toggle" /\ ~isPlaying /\ ev.op = "animate")

\* C2: after handleVideoEnded, playback is paused at position zero, the handler's
\* convertToAscii call samples the frame at position zero, and no render-loop tick
\* calls convertToAscii until the next play.
C2_EndedOneConvertAtZero ==
    pauseCause = "ended" =>
        /\ ~isPlaying
        /\ video.currentTime = 0
        /\ ev.op # "animate"
        /\ (ev.op = "handleVideoEnded" => ev.time = 0)

\* C3: at most one render-loop tick is ever registered, and it is the one the
\* animationFrameId ref names, so a cancel always reaches it.
C3_AtMostOnePendingTick ==
    /\ Cardinality(rafQueue) <= 1
    /\ \A cb \in rafQueue : cb.id = animationFrameId

\* C3 witness: the loop runs at a resolution other than the initial one after the
\* effect restarted it, with exactly one tick registered
C3_Witness ==
    /\ rendered.isPlaying
    /\ ~effectPending
    /\ ev.op = "animate"
    /\ \E cb \in rafQueue : cb.resolution = 300 /\ rendered.resolution = 300

\* C4: for every triple of channels in 0..255 the quantizer returns an index in
\* [0, N-1], so the ramp lookup is never out of bounds.
C4_IndexInRange ==
    /\ rampIndex.pc # "input" =>
          rampIndex.base \in 0..(Len(ASCII_RAMP) - 1) /\ RampAt(rampIndex.base) # "undefined"
    /\ rampIndex.pc = "brightened" =>
          rampIndex.bright \in 0..(Len(ASCII_RAMP) - 1) /\ RampAt(rampIndex.bright) # "undefined"

\* C4 witness: white has been quantized
C4_Witness == rampIndex.pc = "quantized" /\ rgb = <<255, 255, 255>>

\* C5: the quantizer maps black to the first ramp entry and white to the last.
C5_BlackFirstWhiteLast ==
    rampIndex.pc = "quantized" =>
        /\ rgb = <<0, 0, 0>> => rampIndex.base = 0
        /\ rgb = <<255, 255, 255>> => rampIndex.base = Len(ASCII_RAMP) - 1

\* C6: brightening all three channels by the same d >= 0 never lowers the index.
C6_MonotoneBrightening ==
    rampIndex.pc = "brightened" => rampIndex.bright >= rampIndex.base

\* C6 witness: a brightening that raised the index
C6_Witness ==
    rampIndex.pc = "brightened" /\ rampIndex.d > 0 /\ rampIndex.bright > rampIndex.base

\* the glyphs lo..hi of a row-major glyph sequence, joined into one string
RECURSIVE Join(_, _, _)
Join(glyphAt(_), lo, hi) ==
    IF lo > hi THEN ""
    ELSE IF lo = hi THEN glyphAt(lo)
    ELSE Join(glyphAt, lo, (lo + hi) \div 2) \o Join(glyphAt, (lo + hi) \div 2 + 1, hi)

\* C7: the Frame Text left by a successful convertToAscii call with geometry W x H
\* is exactly H rows of W glyphs, each row followed by a newline, and the glyph of
\* row y, column x is the ramp entry of the quantized pixel at offset y*W + x; nothing
\* of the previous Frame Text is kept.
C7_FrameTextLayout ==
    ev.outcome = "ok" =>
        LET W == canvas.width
            H == canvas.height
            CharAt(i) ==
                LET y == i \div (W + 1)
                    x == i % (W + 1)
                    px == Pixel(ev.file, ev.time, y * W + x)
                IN  IF x = W THEN "\n" ELSE Glyph(px[1], px[2], px[3])
        IN  /\ Len(asciiArt) = H * (W + 1)
            /\ asciiArt = Join(CharAt, 0, H * (W + 1) - 1)

\* C7 witness: a frame that is not solid was converted into more than one row,
\* replacing an earlier Frame Text
C7_Witness ==
    /\ ev.outcome = "ok"
    /\ canvas.height >= 2
    /\ canvas.width < 300
    /\ ev.time > 0

\* C8: every convertToAscii call that reaches the geometry sets the canvas width to
\* its resolution and the height to floor((videoHeight / videoWidth) * width * 0.5),
\* whatever an earlier call left; a 1920x1080 source at width 150 gives 42.
C8_HeightRecomputed ==
    /\ (ev.outcome \in {"ok", "throw"} /\ video.videoWidth > 0) =>
          /\ canvas.width = ev.res
          /\ canvas.height = (video.videoHeight * ev.res) \div (2 * video.videoWidth)
    /\ CanvasHeight(1080, 1920, 150) = 42

\* C8 witness: the Frame Text is still the 300 x 2 one of an earlier call, and a call
\* at width 50 has recomputed the height to 0
C8_Witness ==
    /\ ev.outcome = "throw"
    /\ video.videoWidth > 0
    /\ canvas = [width |-> 50, height |-> 0]
    /\ Len(asciiArt) = 2 * 301

\* C9: a convertToAscii call that aborts (no context, or getImageData throws because
\* the source has no dimensions yet or the height is zero) leaves the Frame Text
\* unchanged, and a render-loop tick registers the next tick whatever the outcome.
C9_AbortKeepsFrameText ==
    [][ /\ ev'.outcome \in {"noctx", "throw"} => asciiArt' = asciiArt
        /\ ev'.op = "animate" =>
              \E cb \in rafQueue' : cb.id = animationFrameId' /\ cb.resolution = ev'.res
      ]_vars

\* C9 witness: a tick ran before the metadata was loaded, its call aborted and the
\* next tick is registered
C9_Witness ==
    /\ ev.op = "animate"
    /\ ev.outcome = "throw"
    /\ ~video.loaded
    /\ rafQueue # {}

\* C10: the resolution is always within [50, 300]: a slider change stores the value
\* asked for, clamped to the nearest bound, and no convertToAscii call uses a width
\* outside the bounds.
C10_ResolutionClamped ==
    /\ resolution \in 50..300
    /\ rendered.resolution \in 50..300
    /\ (ev.op = "none" /\ ev.res # 0) =>
          resolution = (IF ev.res < 50 THEN 50 ELSE IF ev.res > 300 THEN 300 ELSE ev.res)
    /\ ev.op # "none" => ev.res \in 50..300
    /\ ev.outcome \in {"ok", "throw"} => canvas.width \in 50..300

\* C10 witness: 310 was asked for and 300 stored, after a conversion at the width 50
\* that an earlier request for 40 had been clamped to
C10_Witness ==
    /\ ev = NoCall(310)
    /\ resolution = 300
    /\ canvas.width = 50

\* C11: a convertToAscii call that follows a successful call on the same frame at the
\* same resolution leaves exactly the Frame Text and the canvas the first call left,
\* although the first call started from another Frame Text and another canvas.
C11_ConvertIdempotent ==
    [][ (/\ ev.outcome = "ok"
         /\ ev'.outcome = "ok"
         /\ <<ev'.file, ev'.time, ev'.res>> = <<ev.file, ev.time, ev.res>>)
        => (asciiArt' = asciiArt /\ canvas' = canvas) ]_vars

\* C11 witness: the striped frame of the tall file was converted at the widest
\* setting; the call can be repeated from here
C11_Witness ==
    /\ ev.op = "convertToAscii"
    /\ ev.outcome = "ok"
    /\ <<ev.file, ev.time, ev.res>> = <<2, 1, 300>>
    /\ canvas = [width |-> 300, height |-> 5]
    /\ Len(asciiArt) = 5 * 301

\* C12: converting a frame whose pixels are all (128, 128, 128) gives, at every
\* resolution of the slider's range, a Frame Text whose glyphs are all the ramp entry
\* floor((128 / 255) * (N - 1)), the floor taken of the exact quotient.
C12_MidGrayFrame ==
    (/\ ev.outcome = "ok"
     /\ \A p \in 0..(canvas.width * canvas.height - 1) :
            Pixel(ev.file, ev.time, p) = <<128, 128, 128>>) =>
        LET W == canvas.width
            H == canvas.height
            mid == ASCII_RAMP[(128 * (Len(ASCII_RAMP) - 1)) \div 255 + 1]
            CharAt(i) == IF i % (W + 1) = W THEN "\n" ELSE mid
        IN  /\ W = ev.res
            /\ H > 0
            /\ asciiArt = Join(CharAt, 0, H * (W + 1) - 1)

\* C12 witness: the solid frame was converted at the narrowest width that still
\* gives a row
C12_Witness ==
    /\ ev.outcome = "ok"
    /\ Pixel(ev.file, ev.time, 0) = <<128, 128, 128>>
    /\ canvas.height = 1
    /\ ev.res = 60
    /\ asciiArt # ""

\* C17: a convertToAscii call changes nothing but the Frame Text and the canvas:
\* isPlaying, the video element (source, position, paused), the selected file,
\* the resolution, the committed render and the tick handle stay as they were.
C17_ConvertFrameOnly ==
    [][ ev'.op = "convertToAscii" =>
            UNCHANGED <<isPlaying, video, videoSrc, resolution, dimensions, rendered,
                        effectPending, animationFrameId, rafQueue>> ]_vars

\* C17 witness: a call that replaced the Frame Text of a video held at a later frame
C17_Witness ==
    /\ ev.op = "convertToAscii"
    /\ ev.outcome = "ok"
    /\ video.currentTime = 1
    /\ video.paused
    /\ resolution = 200

\* C13: outside Playing conversion is event-driven only: while no source is selected
\* no step calls convertToAscii, and while isPlaying is false the only callers are the
\* load and ended handlers, never a render-loop tick.
C13_EventDrivenOutsidePlaying ==
    /\ videoSrc = 0 => ev.op = "none"
    /\ ~isPlaying => ev.op \in {"none", "handleVideoLoaded", "handleVideoEnded"}

\* C14: isPlaying is true only while a source is selected whose metadata has been
\* loaded (Playing is entered from Loaded only).
C14_PlayingOnlyFromLoaded ==
    isPlaying => (videoSrc # 0 /\ video.src = videoSrc /\ video.loaded)

\* C19: the step that selects a file leaves isPlaying false and the Frame Text
\* unchanged and calls convertToAscii not at all, and every convertToAscii call made
\* by a tick or by the ended handler finds the source already loaded, so the first
\* call on a new source is the one of handleVideoLoaded.
C19_FileChangeThenLoadConverts ==
    [][ /\ videoSrc' # videoSrc =>
              (~isPlaying' /\ asciiArt' = asciiArt /\ canvas' = canvas /\ ev'.op = "none")
        /\ ev'.op \in {"animate", "handleVideoEnded"} => video.loaded ]_vars

\* C16: a conversion uses one width for its whole run (the text of a successful call
\* has canvas.height rows of the call's width), and once the effect of the committed
\* render has run, every registered tick and every tick that runs converts with the
\* committed resolution: no callback of an older resolution survives the change.
C16_ResolutionAtomic ==
    /\ ev.outcome = "ok" =>
          (canvas.width = ev.res /\ Len(asciiArt) = canvas.height * (ev.res + 1))
    /\ ~effectPending => \A cb \in rafQueue : cb.resolution = rendered.resolution
    /\ (ev.op = "animate" /\ ~effectPending) => ev.res = rendered.resolution

\* C16 witness: the resolution was changed during playback, the effect restarted the
\* loop, and a tick converted a frame at the new resolution
C16_Witness ==
    /\ ev.op = "animate"
    /\ ev.outcome = "ok"
    /\ ev.res = 50 + 250
    /\ rendered.resolution = 300
    /\ isPlaying
    /\ ~effectPending
    /\ Len(asciiArt) = 2 * 301

\* C18: a resolution change calls convertToAscii not at all: the slider step and the
\* commit and effect steps that follow it leave the Frame Text and the canvas
\* unchanged, and while playback is paused the effect they trigger registers no tick.
C18_PausedResolutionNoConvert ==
    [][ /\ resolution' # resolution => ev'.op = "none"
        /\ ev'.op = "none" => (asciiArt' = asciiArt /\ canvas' = canvas)
        /\ (ev'.op = "none" /\ ~rendered'.isPlaying /\ rafQueue = {}) => rafQueue' = {}
      ]_vars

\* C18 witness: paused with the loop stopped, the resolution committed and its effect
\* run are 300 while the Frame Text is still the one row of width 150 of the load
C18_Witness ==
    /\ ~isPlaying
    /\ ~rendered.isPlaying
    /\ ~effectPending
    /\ rafQueue = {}
    /\ video.loaded
    /\ resolution = 300
    /\ rendered.resolution = 300
    /\ canvas.width = 150
    /\ Len(asciiArt) = 151

\* C15: while Playing the loop keeps running: once the effect of a playing render has
\* run exactly one tick is registered, every tick calls convertToAscii and leaves
\* exactly one next tick registered, and with commits, effects and ticks scheduled
\* fairly a tick converts again unless playback is paused or ends; a resolution
\* change in between does not stop this.
C15_LoopKeepsRunning ==
    /\ []((rendered.isPlaying /\ ~effectPending) => Cardinality(rafQueue) = 1)
    /\ [][ev'.op = "animate" =>
              (/\ ev'.outcome \in {"ok", "throw", "noctx"}
               /\ Cardinality(rafQueue') = Cardinality(rafQueue)
               /\ \E cb \in rafQueue' : cb.id = animationFrameId')]_vars
    /\ (isPlaying ~> (ev.op = "animate" \/ ~isPlaying))

\* C15 witness: playback runs at a resolution chosen during playback, the video has
\* advanced, a tick has just converted and the next one is registered
C15_Witness ==
    /\ isPlaying
    /\ rendered.isPlaying
    /\ ~effectPending
    /\ ev.op = "animate"
    /\ ev.res = 300
    /\ video.shownTime = 1
    /\ ~video.paused
    /\ Cardinality(rafQueue) = 1
====
